---- MODULE Spec2Model ----
(***************************************************************************)
(* A model of the number_range crate (src/src/lib.rs): the Number terms,   *)
(* the NumberRange iterator (next), its Display rendering and its parser   *)
(* (parse_str / parse / parse_number / sanitize_number).                   *)
(*                                                                         *)
(* Text is a sequence of one-character strings.  The number type T is a    *)
(* fixed-width integer of W bits, signed or unsigned (i64 / usize in the   *)
(* crate's tests).  `start + step` in next() is the primitive integer      *)
(* addition: on overflow it panics when the build has overflow checks      *)
(* (debug profile) and wraps modulo 2^W when it has not (release profile). *)
(***************************************************************************)
EXTENDS Integers, Sequences, FiniteSets, TLC

\* ------------------------------------------------------------------ bounds
\* Width in bits of the number type T.
W == 4
\* Most terms a manually built NumberRange holds at once.
MaxTerms == 2
\* Most values pulled since the last build operation (push or parse).
MaxPulls == 6

\* --------------------------------------------------------- the number type
RECURSIVE Pow2(_)
Pow2(n) == IF n = 0 THEN 1 ELSE 2 * Pow2(n - 1)

TMin(signed) == IF signed THEN -Pow2(W - 1) ELSE 0
TMax(signed) == IF signed THEN Pow2(W - 1) - 1 ELSE Pow2(W) - 1
InT(v, signed) == TMin(signed) <= v /\ v <= TMax(signed)

\* a + b leaves the representable range of T
Overflows(a, b, signed) == ~InT(a + b, signed)

\* a + b reduced modulo 2^W into the range of T (wrapping addition)
WrapAdd(a, b, signed) ==
    LET m == Pow2(W)
        r == (a + b) % m
    IN IF signed /\ r > TMax(signed) THEN r - m ELSE r

\* ------------------------------------------------------------------- terms
Single(v) == [kind |-> "Single", start |-> v, step |-> 0, end |-> v]
Range(s, i, e) == [kind |-> "Range", start |-> s, step |-> i, end |-> e]

\* Number::is_valid
IsValid(n) ==
    IF n.kind = "Single" THEN TRUE
    ELSE \/ (n.start <= n.end /\ n.step > 0)
         \/ (n.start >= n.end /\ n.step < 0)

\* Number::is_invalid
IsInvalid(n) == ~IsValid(n)

\* ---------------------------------------------------------------- next()
\* What one call of Iterator::next does to the term sequence `nums`:
\*   ret     "None" | "Some" | "Panic" (the addition overflowed under
\*           overflow checks: the call unwinds before any assignment)
\*   v       the value of Some(v)
\*   nums    the term sequence after the call
\*   skipped how many invalid Ranges the call removed on its way
Some(v, nums, k) == [ret |-> "Some", v |-> v, nums |-> nums, skipped |-> k]
None(nums, k) == [ret |-> "None", v |-> 0, nums |-> nums, skipped |-> k]
Panic(nums, k) == [ret |-> "Panic", v |-> 0, nums |-> nums, skipped |-> k]

\* A wrong AdvanceRange: the advanced term is stored without the validity check.
AdvanceRange_NoCheck(nums, signed, checks, k) ==
    LET n == nums[1]
    IN IF checks /\ Overflows(n.start, n.step, signed)
       THEN Panic(nums, k)
       ELSE Some(n.start,
                 <<Range(WrapAdd(n.start, n.step, signed), n.step, n.end)>>
                     \o Tail(nums), k)

\* A wrong AdvanceRange: the end of the advanced term moves with its start.
AdvanceRange_ShiftEnd(nums, signed, checks, k) ==
    LET n == nums[1]
    IN IF checks /\ Overflows(n.start, n.step, signed)
       THEN Panic(nums, k)
       ELSE LET next_step == Range(WrapAdd(n.start, n.step, signed), n.step,
                                   WrapAdd(n.end, n.step, signed))
            IN Some(n.start,
                    IF IsValid(next_step) THEN <<next_step>> \o Tail(nums)
                    ELSE Tail(nums), k)

\* The valid-Range branch of next(): lines 285-292.
AdvanceRange(nums, signed, checks, k) ==
    LET n == nums[1]
    IN IF checks /\ Overflows(n.start, n.step, signed)
       THEN Panic(nums, k)
       ELSE LET next_step == Range(WrapAdd(n.start, n.step, signed), n.step, n.end)
            IN Some(n.start,
                    IF IsValid(next_step) THEN <<next_step>> \o Tail(nums)
                    ELSE Tail(nums), k)

\* A wrong SkipInvalid: an invalid front Range ends the iteration.
SkipInvalid_Stop(rest, signed, checks, k) == None(rest, k + 1)

RECURSIVE NextFn(_, _, _, _)
\* A wrong SkipInvalid: the term behind the invalid Range is removed too.
SkipInvalid_PopTwice(rest, signed, checks, k) ==
    NextFn(IF rest = <<>> THEN rest ELSE Tail(rest), signed, checks, k + 1)

\* The invalid-Range branch of next(): pop_front, then self.next().
SkipInvalid(rest, signed, checks, k) == NextFn(rest, signed, checks, k + 1)

\* Iterator::next for NumberRange
NextFn(nums, signed, checks, k) ==
    IF nums = <<>> THEN None(nums, k)
    ELSE IF nums[1].kind = "Single" THEN Some(nums[1].start, Tail(nums), k)
    ELSE IF IsValid(nums[1]) THEN AdvanceRange(nums, signed, checks, k)
    ELSE SkipInvalid(Tail(nums), signed, checks, k)

\* -------------------------------------------------------------------- text
Digits == <<"0", "1", "2", "3", "4", "5", "6", "7", "8", "9">>
IsDigit(c) == \E d \in 1..10 : Digits[d] = c
DigitVal(c) == (CHOOSE d \in 1..10 : Digits[d] = c) - 1
IsSpace(c) == c = " "

RECURSIVE FmtNat(_)
FmtNat(n) ==
    IF n < 10 THEN <<Digits[n + 1]>>
    ELSE FmtNat(n \div 10) \o <<Digits[(n % 10) + 1]>>

\* format!("{}", v) for an integer v
FmtInt(v) == IF v < 0 THEN <<"-">> \o FmtNat(-v) ELSE FmtNat(v)

\* The default configuration and the fields of NumberRangeOptions.
NoDefault == [some |-> FALSE, v |-> 0]
SomeDefault(v) == [some |-> TRUE, v |-> v]
NewOptions ==
    [list_sep |-> ",", range_sep |-> ":", decimal_sep |-> ".", group_sep |-> "_",
     whitespace |-> FALSE, default_start |-> NoDefault, default_end |-> NoDefault]

\* A wrong FmtTerm: the step is never written.
FmtTerm_NoStep(n, opts) ==
    IF n.kind = "Single" THEN FmtInt(n.start)
    ELSE FmtInt(n.start) \o <<opts.range_sep>> \o FmtInt(n.end)

\* The closure of Display::fmt: one term's text.
FmtTerm(n, opts) ==
    IF n.kind = "Single" THEN FmtInt(n.start)
    ELSE IF n.step = 1
         THEN FmtInt(n.start) \o <<opts.range_sep>> \o FmtInt(n.end)
         ELSE FmtInt(n.start) \o <<opts.range_sep>> \o FmtInt(n.step)
                  \o <<opts.range_sep>> \o FmtInt(n.end)

\* Itertools::join: the texts separated by sep.
RECURSIVE Join(_, _)
Join(texts, sep) ==
    IF texts = <<>> THEN <<>>
    ELSE IF Len(texts) = 1 THEN texts[1]
    ELSE texts[1] \o <<sep>> \o Join(Tail(texts), sep)

\* Display::fmt for NumberRange (what to_string returns)
Display(nums, opts) ==
    Join([i \in 1..Len(nums) |-> FmtTerm(nums[i], opts)], opts.list_sep)

\* ----------------------------------------------------------------- parsing
RECURSIVE TrimStart(_)
TrimStart(s) ==
    IF s # <<>> /\ IsSpace(s[1]) THEN TrimStart(Tail(s)) ELSE s

RECURSIVE TrimEnd(_)
TrimEnd(s) ==
    IF s # <<>> /\ IsSpace(s[Len(s)]) THEN TrimEnd(SubSeq(s, 1, Len(s) - 1)) ELSE s

\* str::trim
Trim(s) == TrimEnd(TrimStart(s))

\* str::replace(c, ""): every occurrence of c removed
RemoveChar(s, c) == SelectSeq(s, LAMBDA x : x # c)

\* split_whitespace().join("")
RemoveSpaces(s) == SelectSeq(s, LAMBDA x : ~IsSpace(x))

\* str::replace(c, d)
RECURSIVE ReplaceChar(_, _, _)
ReplaceChar(s, c, d) ==
    IF s = <<>> THEN <<>>
    ELSE <<IF s[1] = c THEN d ELSE s[1]>> \o ReplaceChar(Tail(s), c, d)

\* NumberRange::sanitize_number
SanitizeNumber(num, opts) ==
    LET a == RemoveChar(Trim(num), opts.group_sep)
        b == IF opts.whitespace THEN RemoveSpaces(a) ELSE a
    IN ReplaceChar(b, opts.decimal_sep, ".")

\* The value of a run of decimal digits.
RECURSIVE DigitsValue(_, _)
DigitsValue(s, acc) ==
    IF s = <<>> THEN acc ELSE DigitsValue(Tail(s), 10 * acc + DigitVal(s[1]))

AllDigits(s) == \A i \in 1..Len(s) : IsDigit(s[i])

Ok(v) == [ok |-> TRUE, v |-> v]
Err == [ok |-> FALSE, v |-> 0]

\* str::parse::<T>() for an integer T: an optional sign ('-' only for a
\* signed T), then one or more decimal digits; a value outside T is an error.
ParseInt(s, signed) ==
    IF s = <<>> THEN Err
    ELSE LET neg == signed /\ s[1] = "-" /\ Len(s) > 1
             pos == s[1] = "+" /\ Len(s) > 1
             digits == IF neg \/ pos THEN Tail(s) ELSE s
         IN IF ~AllDigits(digits) THEN Err
            ELSE LET m == DigitsValue(digits, 0)
                     v == IF neg THEN -m ELSE m
                 IN IF InT(v, signed) THEN Ok(v) ELSE Err

\* A wrong ParseNumber: an empty number is zero when no default is given.
ParseNumber_EmptyIsZero(num, def, opts, signed) ==
    LET s == SanitizeNumber(num, opts)
    IN IF s = <<>> THEN (IF def.some THEN Ok(def.v) ELSE Ok(0))
       ELSE ParseInt(s, signed)

\* NumberRange::parse_number
ParseNumber(num, def, opts, signed) ==
    LET s == SanitizeNumber(num, opts)
    IN IF def.some /\ s = <<>> THEN Ok(def.v) ELSE ParseInt(s, signed)

\* str::matches(c).count()
CountChar(s, c) == Len(SelectSeq(s, LAMBDA x : x = c))

\* The index of the first c in s, or 0.
FirstIndex(s, c) ==
    IF \E i \in 1..Len(s) : s[i] = c
    THEN CHOOSE i \in 1..Len(s) : s[i] = c /\ \A j \in 1..(i - 1) : s[j] # c
    ELSE 0

\* str::split(c): the pieces between the occurrences of c
RECURSIVE Split(_, _)
Split(s, c) ==
    LET i == FirstIndex(s, c)
    IN IF i = 0 THEN <<s>>
       ELSE <<SubSeq(s, 1, i - 1)>> \o Split(SubSeq(s, i + 1, Len(s)), c)

\* A wrong ParseTerm: the step of a two-part term follows the bounds' order.
ParseTerm_AutoStep(seq_str, opts, signed) ==
    LET parts == Split(seq_str, opts.range_sep)
        one == SomeDefault(1)
    IN IF Len(parts) = 1
       THEN LET v == ParseNumber(seq_str, NoDefault, opts, signed)
            IN IF v.ok THEN Ok(Single(v.v)) ELSE Err
       ELSE IF Len(parts) = 2
       THEN LET s == ParseNumber(parts[1], opts.default_start, opts, signed)
                e == ParseNumber(parts[2], opts.default_end, opts, signed)
            IN IF s.ok /\ e.ok
               THEN Ok(Range(s.v, IF s.v > e.v /\ signed THEN -1 ELSE 1, e.v))
               ELSE Err
       ELSE IF Len(parts) = 3
       THEN LET s == ParseNumber(parts[1], opts.default_start, opts, signed)
                i == ParseNumber(parts[2], one, opts, signed)
                e == ParseNumber(parts[3], opts.default_end, opts, signed)
            IN IF s.ok /\ i.ok /\ e.ok THEN Ok(Range(s.v, i.v, e.v)) ELSE Err
       ELSE Err

\* The closure of parse(): one list element to a Number, by the count of
\* range separators in it (0, 1, 2, otherwise an error).
ParseTerm(seq_str, opts, signed) ==
    LET count == CountChar(seq_str, opts.range_sep)
        parts == Split(seq_str, opts.range_sep)
        one == SomeDefault(1)
    IN IF count = 0
       THEN LET v == ParseNumber(seq_str, NoDefault, opts, signed)
            IN IF v.ok THEN Ok(Single(v.v)) ELSE Err
       ELSE IF count = 1
       THEN LET s == ParseNumber(parts[1], opts.default_start, opts, signed)
                e == ParseNumber(parts[2], opts.default_end, opts, signed)
            IN IF s.ok /\ e.ok THEN Ok(Range(s.v, 1, e.v)) ELSE Err
       ELSE IF count = 2
       THEN LET s == ParseNumber(parts[1], opts.default_start, opts, signed)
                i == ParseNumber(parts[2], one, opts, signed)
                e == ParseNumber(parts[3], opts.default_end, opts, signed)
            IN IF s.ok /\ i.ok /\ e.ok THEN Ok(Range(s.v, i.v, e.v)) ELSE Err
       ELSE Err

\* collect::<Result<VecDeque<_>>>()?: every term, or the error.
CollectTerms(results) ==
    IF \A i \in 1..Len(results) : results[i].ok
    THEN [ok |-> TRUE, nums |-> [i \in 1..Len(results) |-> results[i].v]]
    ELSE [ok |-> FALSE, nums |-> <<>>]

\* NumberRange::parse on a retained string numstr: the new term sequence, or
\* the error.
ParseText(numstr, opts, signed) ==
    IF SanitizeNumber(numstr, opts) = <<>>
    THEN [ok |-> TRUE, nums |-> <<>>]
    ELSE LET pieces == Split(numstr, opts.list_sep)
         IN CollectTerms([i \in 1..Len(pieces) |-> ParseTerm(pieces[i], opts, signed)])

\* ------------------------------------------------------------------- state
VARIABLES
    numbers,          \* NumberRange.numbers: the sequence of terms, front first
    original_repr,    \* NumberRange.original_repr: Option<&str>
    options,          \* NumberRange.options
    signed,           \* the number type T is signed (i64) or unsigned (usize)
    overflow_checks,  \* the build panics on integer overflow (debug) or wraps
    last,             \* the last operation and what it returned
    base,             \* history: the term sequence after the last build operation
    emitted,          \* history: the values pulled since then, in order
    taken             \* history: the values pulled from the term now at the front

vars ==
    <<numbers, original_repr, options, signed, overflow_checks, last, base,
      emitted, taken>>

NoRepr == [some |-> FALSE, s |-> <<>>]
SomeRepr(s) == [some |-> TRUE, s |-> s]

\* NumberRange::original
Original == IF original_repr.some THEN original_repr.s ELSE <<>>

\* Most times in a row a run pulls from a drained sequence.
MaxNones == 2

Result(op, ret, v, skipped, nones) ==
    [op |-> op, ret |-> ret, v |-> v, skipped |-> skipped, nones |-> nones]

\* The value no longer exists: parse_str consumed it and returned an error,
\* or next() panicked.
Live == last.ret \notin {"Err", "Panic"}

\* ------------------------------------------------------------------ inputs
\* The values and steps of the terms a caller pushes.  For a signed T the
\* minimum of T and a value three above it, with steps of both signs: the
\* ascending Ranges stay inside T and the descending ones reach its minimum.
\* For an unsigned T zero, a small value and the maximum of T.
PushVals ==
    IF signed THEN {TMin(signed), TMin(signed) + 3} ELSE {0, 3, TMax(signed)}
PushSteps == IF signed THEN {-2, -1, 0, 1, 2} ELSE {0, 1, 2}
PushTerms ==
    {Single(v) : v \in PushVals}
        \cup {Range(s, i, e) : s \in PushVals, i \in PushSteps, e \in PushVals}

\* The configurations of a manually built NumberRange: the default one and
\* the separators of tests::options_build_then_modify.
BuildOptions ==
    {NewOptions, [NewOptions EXCEPT !.list_sep = ":", !.range_sep = "-"]}

\* NumberRange::default / NumberRange::from_options
NewNumberRange ==
    /\ numbers = <<>>
    /\ original_repr = NoRepr
    /\ last = Result("new", "-", 0, 0, 0)
    /\ base = <<>>
    /\ emitted = <<>>
    /\ taken = 0

Init ==
    /\ signed \in BOOLEAN
    /\ overflow_checks \in BOOLEAN
    /\ options \in BuildOptions
    /\ NewNumberRange

\* ----------------------------------------------------------------- actions
\* rng.numbers.push_back(t)
PushBack(t) ==
    /\ Live
    /\ Len(numbers) < MaxTerms
    /\ numbers' = Append(numbers, t)
    /\ last' = Result("push", "-", 0, 0, 0)
    /\ base' = numbers'
    /\ emitted' = <<>>
    /\ taken' = 0
    /\ UNCHANGED <<original_repr, options, signed, overflow_checks>>

\* rng.next()
Pull ==
    /\ Live
    /\ Len(emitted) < MaxPulls
    /\ last.nones < MaxNones
    /\ LET r == NextFn(numbers, signed, overflow_checks, 0)
       IN /\ numbers' = r.nums
          /\ last' = Result("next", r.ret, r.v, r.skipped,
                            IF r.ret = "None" THEN last.nones + 1 ELSE 0)
          /\ emitted' = IF r.ret = "Some" THEN Append(emitted, r.v) ELSE emitted
          /\ taken' = IF r.ret = "Panic" THEN taken
                       ELSE IF r.ret = "None" \/ Len(r.nums) < Len(numbers) - r.skipped
                       THEN 0
                       ELSE IF r.skipped = 0 THEN taken + 1 ELSE 1
    /\ UNCHANGED <<original_repr, options, signed, overflow_checks, base>>

Next ==
    \/ \E t \in PushTerms : PushBack(t)
    \/ Pull

Spec == Init /\ [][Next]_vars

\* ------------------------------------------------- parsing: inputs, action
\* The number substrings of the parsed texts: empty, plain, grouped,
\* padded, with an inner space, signed, not a number, and the maximum of T.
NumTexts ==
    {<<>>, <<"1">>, <<"4">>, <<"1", "_", "2">>, <<" ", "3", " ">>,
     <<"1", " ", "2">>, <<"-", "2">>, <<"x">>, FmtInt(TMax(signed))}
StepTexts == {<<>>, <<"2">>, <<"0">>, <<"-", "1">>}

\* One term with 0, 1, 2 and 3 range separators.
OneTermTexts(opts) ==
    LET r == <<opts.range_sep>>
    IN NumTexts
        \cup {a \o r \o b : a \in NumTexts, b \in NumTexts}
        \cup {a \o r \o i \o r \o b : a \in NumTexts, i \in StepTexts, b \in NumTexts}
        \cup {<<"1">> \o r \o <<"1">> \o r \o <<"1">> \o r \o <<"1">>}

\* Lists of two and of three terms: good, empty and bad terms in every place.
ListTerms(opts) ==
    LET r == <<opts.range_sep>>
    IN {<<>>, <<"1">>, <<"x">>, <<"3">> \o r \o <<"4">>, <<"4">> \o r \o <<"1">>,
        <<"1">> \o r \o <<"2">> \o r \o <<"4">>,
        <<" ", "3", " ">> \o r \o <<"-", "1">> \o r \o <<"1">>,
        <<"1">> \o r \o <<"1">> \o r \o <<"1">> \o r \o <<"1">>}
ShortTerms(opts) ==
    {<<>>, <<"1">>, <<"x">>, <<"4">> \o <<opts.range_sep>> \o <<"1">>}
ListTexts(opts) ==
    {Join(<<a, b>>, opts.list_sep) : a \in ListTerms(opts), b \in ListTerms(opts)}
        \cup {Join(<<a, b, c>>, opts.list_sep) :
                a \in ShortTerms(opts), b \in ShortTerms(opts), c \in ShortTerms(opts)}

ParseTexts(opts) == OneTermTexts(opts) \cup ListTexts(opts)

\* The configurations parsed with: both range separators of the tests, with
\* and without each default bound (tests::limits_test), and the localized
\* configuration of the NumberRangeOptions documentation.
ParseOptions ==
    {[NewOptions EXCEPT !.range_sep = r, !.default_start = ds, !.default_end = de] :
        r \in {":", "-"},
        ds \in {NoDefault, SomeDefault(0)},
        de \in {NoDefault, SomeDefault(5)}}
    \cup {[NewOptions EXCEPT !.list_sep = "/", !.range_sep = "-",
                             !.group_sep = ",", !.whitespace = TRUE]}

InitParse ==
    /\ signed \in BOOLEAN
    /\ overflow_checks \in BOOLEAN
    /\ options \in ParseOptions
    /\ NewNumberRange

\* A wrong ParseStr: the parsed terms are appended to the terms held.
ParseStr_Append(numstr) ==
    /\ Live
    /\ LET r == ParseText(numstr, options, signed)
       IN /\ numbers' = IF r.ok THEN numbers \o r.nums ELSE r.nums
          /\ last' = Result("parse", IF r.ok THEN "Ok" ELSE "Err", 0, Len(numbers), 0)
          /\ base' = numbers'
    /\ original_repr' = SomeRepr(numstr)
    /\ emitted' = <<>>
    /\ taken' = 0
    /\ UNCHANGED <<options, signed, overflow_checks>>

\* NumberRange::parse_str(numstr): the string is retained, then parse().  On
\* an error the value, moved into the call, is dropped: no terms are returned.
\* last.skipped records how many terms the value held when it was parsed.
ParseStr(numstr) ==
    /\ Live
    /\ LET r == ParseText(numstr, options, signed)
       IN /\ numbers' = r.nums
          /\ last' = Result("parse", IF r.ok THEN "Ok" ELSE "Err", 0, Len(numbers), 0)
          /\ base' = r.nums
    /\ original_repr' = SomeRepr(numstr)
    /\ emitted' = <<>>
    /\ taken' = 0
    /\ UNCHANGED <<options, signed, overflow_checks>>

\* NumberRangeOptions::parse(numstr): from_options, then parse_str.
OptionsParse(numstr) == ParseStr(numstr)

NextParse ==
    \/ /\ last.op = "new"
       /\ \E t \in ParseTexts(options) : OptionsParse(t)
    \/ Pull

SpecParse == InitParse /\ [][NextParse]_vars

\* ------------------------------------- parsing, pushing and pulling mixed
\* A NumberRange with the default configuration that is parsed, re-parsed,
\* pushed onto and pulled from in any order.
MixedTexts ==
    {<<>>,
     <<" ", "_">>,
     <<"1", ",", "x">>,
     <<"1", ":", "2", ":", "4", ",", "4", ":", "1">>,
     <<"4", ":", "1", ",", "1", ":", "0", ":", "4", ",", "3">>}
MixedPushTerms == {Single(1), Range(1, 2, 4), Range(4, 1, 1)}

InitMixed ==
    /\ signed \in BOOLEAN
    /\ overflow_checks \in BOOLEAN
    /\ options = NewOptions
    /\ NewNumberRange

NextMixed ==
    \/ \E t \in MixedTexts : ParseStr(t)
    \/ \E t \in MixedPushTerms : PushBack(t)
    \/ Pull

SpecMixed == InitMixed /\ [][NextMixed]_vars

\* ------------------------------------------- the claims' reference notions
\* The arithmetic progression s, s+i, s+2i, ... over the integers, up to and
\* including the last value at or before e; empty when the step contradicts
\* the order of s and e or is zero.
RECURSIVE Progression(_, _, _)
Progression(s, i, e) ==
    IF (i > 0 /\ s <= e) \/ (i < 0 /\ s >= e)
    THEN <<s>> \o Progression(s + i, i, e)
    ELSE <<>>

\* The values a term stands for.
Expansion(n) ==
    IF n.kind = "Single" THEN <<n.start>> ELSE Progression(n.start, n.step, n.end)

\* expansion(t1) \o ... \o expansion(tn)
RECURSIVE ExpansionAll(_)
ExpansionAll(nums) ==
    IF nums = <<>> THEN <<>> ELSE Expansion(nums[1]) \o ExpansionAll(Tail(nums))

IsPrefix(a, b) == Len(a) <= Len(b) /\ SubSeq(b, 1, Len(a)) = a

Occurrences(seq, v) == Cardinality({k \in 1..Len(seq) : seq[k] = v})

\* The retained source text, and its list elements as parse() sees them.
Text == original_repr.s
Pieces ==
    IF SanitizeNumber(Text, options) = <<>> THEN <<>>
    ELSE Split(Text, options.list_sep)

\* ---------------------------------------------------------------- claim C1
\* C1: a valid Range(s, i, e), pulled from until it is gone, yields exactly
\* s, s+i, s+2i, ... up to the last value at or before e and nothing beyond
\* e: at every point the values pulled so far followed by the values of what
\* is left are that progression, and no pull fails.
C1_RangeDrainsToProgression ==
    (Len(base) = 1 /\ base[1].kind = "Range" /\ IsValid(base[1])) =>
        /\ last.ret # "Panic"
        /\ emitted \o ExpansionAll(numbers)
               = Progression(base[1].start, base[1].step, base[1].end)

\* ---------------------------------------------------------------- claim C2
\* C2: draining terms t1..tn yields expansion(t1) \o ... \o expansion(tn),
\* in term order: the values pulled so far followed by the expansions of the
\* terms left are the concatenation of the expansions of the terms built,
\* and no pull fails.
C2_DrainIsConcatenation ==
    /\ last.ret # "Panic"
    /\ emitted \o ExpansionAll(numbers) = ExpansionAll(base)

\* ---------------------------------------------------------------- claim C5
\* C5: iteration always terminates, also for Ranges that end at the maximum
\* or minimum of T: no pull fails, never more values are pulled than the
\* terms stand for, and once a single valid Range is drained its last
\* progression value has been emitted exactly once.
C5_IterationTerminates ==
    /\ last.ret # "Panic"
    /\ Len(emitted) <= Len(ExpansionAll(base))
    /\ (Len(base) = 1 /\ base[1].kind = "Range" /\ IsValid(base[1])
            /\ numbers = <<>>)
        => LET p == Expansion(base[1])
           IN Occurrences(emitted, p[Len(p)]) = 1

\* ---------------------------------------------------------------- claim C4
\* C4: a call of next() whose front term is an invalid Range removes that
\* term, emits nothing for it, signals no error for it, and returns exactly
\* what next() returns on the remaining terms, for any number of invalid
\* Ranges in a row, parsed or pushed.
C4_InvalidFrontIsSkipped ==
    [][(last'.op = "next" /\ numbers # <<>> /\ numbers[1].kind = "Range"
            /\ IsInvalid(numbers[1]))
        => LET r == NextFn(Tail(numbers), signed, overflow_checks, 0)
           IN /\ numbers' = r.nums
              /\ last'.ret = r.ret
              /\ last'.v = r.v
              /\ last'.skipped = r.skipped + 1
              /\ emitted' = IF r.ret = "Some" THEN Append(emitted, r.v) ELSE emitted
              /\ (r.ret = "Some" =>
                    \E k \in 2..Len(numbers) :
                        /\ IsValid(numbers[k])
                        /\ numbers[k].start = r.v
                        /\ \A j \in 1..(k - 1) : IsInvalid(numbers[j]))
              /\ (r.ret = "None" =>
                    \A j \in 1..Len(numbers) : IsInvalid(numbers[j]))]_vars

\* Two invalid Ranges in a row were skipped by one call that returned the
\* first value of the valid term behind them.
C4_Witness ==
    /\ last.op = "next"
    /\ last.skipped = 2
    /\ last.ret = "Some"
    /\ Len(base) = 3

\* ---------------------------------------------------------------- claim C6
\* C6: once next() has returned None, every later next() with no push in
\* between returns None as well and does not fail; the term sequence is
\* empty after a None and stays empty.
C6_EndOfSequenceIsIdempotent ==
    [][(last.op = "next" /\ last.ret = "None" /\ last'.op = "next")
        => /\ numbers = <<>>
           /\ last'.ret = "None"
           /\ numbers' = <<>>
           /\ emitted' = emitted]_vars

\* A second None in a row, after values were pulled.
C6_Witness ==
    /\ last.op = "next"
    /\ last.ret = "None"
    /\ last.nones = 2
    /\ emitted # <<>>
    /\ numbers = <<>>

\* ---------------------------------------------------------------- claim C8
\* The text the claim gives a term: v for Single(v), s<range_sep>e for a
\* Range with step 1, s<range_sep>i<range_sep>e otherwise.
ClaimTermText(n, opts) ==
    CASE n.kind = "Single" -> FmtInt(n.start)
      [] n.kind = "Range" /\ n.step = 1 ->
            FmtInt(n.start) \o <<opts.range_sep>> \o FmtInt(n.end)
      [] OTHER ->
            FmtInt(n.start) \o <<opts.range_sep>> \o FmtInt(n.step)
                \o <<opts.range_sep>> \o FmtInt(n.end)

\* The terms the claim expects to be present: the terms built, less the
\* ones removed from the front, the front one advanced by the values pulled
\* from it (start + k * step in the arithmetic of T).
RemovedTerms == Len(base) - Len(numbers)
ExpectedTerms ==
    [k \in 1..Len(numbers) |->
        LET b == base[RemovedTerms + k]
        IN IF k = 1 /\ taken > 0
           THEN Range(WrapAdd(b.start, taken * b.step, signed), b.step, b.end)
           ELSE b]

\* What holds of Display at every point of an iteration: the text is the
\* list_sep-join of the terms present, each rendered by the claim's rule; the
\* terms present are the terms built less the ones removed from the front;
\* a front Range from which k values were pulled shows start + k * step (in
\* the arithmetic of T) with its step and end unchanged.
DisplayIsLiveView ==
    /\ RemovedTerms >= 0
    /\ numbers = ExpectedTerms
    /\ (taken > 0 =>
          LET b == base[RemovedTerms + 1]
          IN /\ b.kind = "Range"
             /\ taken <= Len(emitted)
             /\ \A m \in 1..taken :
                    emitted[Len(emitted) - taken + m]
                        = WrapAdd(b.start, (m - 1) * b.step, signed))
    /\ Display(numbers, options)
           = Join([k \in 1..Len(numbers) |-> ClaimTermText(ExpectedTerms[k], options)],
                  options.list_sep)

\* C8: the formatted text is a live view of the current term sequence: the
\* list_sep-join of the terms still present by the claim's rendering rule, a
\* Range from which k values were pulled and that is not exhausted shown
\* with start s + k*i, and exhausted terms (all of whose values have been
\* emitted) absent.
C8_DisplayIsLiveView ==
    /\ DisplayIsLiveView
    /\ (taken > 0 => taken < Len(Expansion(base[RemovedTerms + 1])))

\* ---------------------------------------------------------------- claim C3
\* The retained text is one term "s<range_sep>e" with both numbers written
\* and s > e.
TwoPartDescending ==
    /\ original_repr.some
    /\ CountChar(Text, options.list_sep) = 0
    /\ CountChar(Text, options.range_sep) = 1
    /\ LET parts == Split(Text, options.range_sep)
           s == ParseNumber(parts[1], NoDefault, options, signed)
           e == ParseNumber(parts[2], NoDefault, options, signed)
       IN s.ok /\ e.ok /\ s.v > e.v

\* C3: parsing "s:e" with s > e succeeds, stores Range(s, 1, e) and drains to
\* nothing; a parsed Range with start above end emits values only when its
\* text writes a negative step between two range separators.
C3_DescendingNeedsExplicitStep ==
    /\ TwoPartDescending =>
          LET parts == Split(Text, options.range_sep)
              s == ParseNumber(parts[1], NoDefault, options, signed).v
              e == ParseNumber(parts[2], NoDefault, options, signed).v
          IN /\ last.ret # "Err"
             /\ base = <<Range(s, 1, e)>>
             /\ emitted = <<>>
             /\ (last.op = "next" => last.ret = "None" /\ numbers = <<>>)
    /\ (Len(base) = 1 /\ base[1].kind = "Range" /\ base[1].start > base[1].end
            /\ emitted # <<>>)
        => /\ CountChar(Text, options.range_sep) = 2
           /\ LET i == ParseNumber(Split(Text, options.range_sep)[2], NoDefault,
                                   options, signed)
              IN i.ok /\ i.v < 0 /\ i.v = base[1].step

\* "s:e" with s > e was parsed and pulled from: the pull returned None.
C3_Witness ==
    /\ TwoPartDescending
    /\ last.op = "next"
    /\ last.ret = "None"
    /\ emitted = <<>>

\* ---------------------------------------------------------------- claim C7
\* What draining nums yields within `fuel` pulls: the values, and how the
\* drain ended ("None", "Panic", or "More" when the fuel ran out).
RECURSIVE Drain(_, _, _, _)
Drain(nums, sgn, checks, fuel) ==
    LET r == NextFn(nums, sgn, checks, 0)
    IN IF r.ret # "Some" THEN [vals |-> <<>>, end |-> r.ret]
       ELSE IF fuel = 0 THEN [vals |-> <<>>, end |-> "More"]
       ELSE LET d == Drain(r.nums, sgn, checks, fuel - 1)
            IN [vals |-> <<r.v>> \o d.vals, end |-> d.end]

\* C7: a NumberRange freshly parsed with the default separators, formatted
\* and parsed again with the same configuration, parses and drains to the
\* same sequence of values.
C7_RoundTrip ==
    (last.op = "parse" /\ last.ret = "Ok"
        /\ options.list_sep = "," /\ options.range_sep = ":")
    => LET again == ParseText(Display(numbers, options), options, signed)
       IN /\ again.ok
          /\ Drain(again.nums, signed, overflow_checks, MaxPulls)
                 = Drain(numbers, signed, overflow_checks, MaxPulls)

\* A fresh parse of two terms, one a Range of step -1, whose formatted text
\* differs from the text parsed.
C7_Witness ==
    /\ last.op = "parse"
    /\ last.ret = "Ok"
    /\ options.list_sep = ","
    /\ options.range_sep = ":"
    /\ Len(numbers) = 2
    /\ \E k \in 1..2 : numbers[k].kind = "Range" /\ numbers[k].step = -1
    /\ Display(numbers, options) # Text


\* ---------------------------------------------------------- claims C9, C10
\* The parse of the retained text returned an error: nothing can be pulled
\* or pushed afterwards, so the error stays the last result.
ParseFailed == original_repr.some /\ last.ret = "Err"

\* A number substring that is empty after sanitization.
IsEmptyNum(t) == SanitizeNumber(t, options) = <<>>

\* A number substring that is written but is not a literal of T.
IsBadLiteral(t) ==
    /\ ~IsEmptyNum(t)
    /\ ~ParseInt(SanitizeNumber(t, options), signed).ok

\* The value a literal of T denotes.
Literal(t) == ParseInt(SanitizeNumber(t, options), signed).v

\* Parsing is all-or-nothing, the rule: a term with three or more range
\* separators, or a number substring that is not a literal, makes the parse
\* an error with no term returned; a parse that succeeds returns one term
\* for every term of the text, none left out.
AllOrNothing ==
    original_repr.some =>
        /\ (\E k \in 1..Len(Pieces) :
                \/ CountChar(Pieces[k], options.range_sep) >= 3
                \/ \E j \in 1..Len(Split(Pieces[k], options.range_sep)) :
                       IsBadLiteral(Split(Pieces[k], options.range_sep)[j]))
            => ParseFailed /\ numbers = <<>> /\ base = <<>>
        /\ ~ParseFailed =>
              /\ Len(base) = Len(Pieces)
              /\ \A k \in 1..Len(Pieces) : ParseTerm(Pieces[k], options, signed).ok
        /\ ParseFailed => numbers = <<>> /\ base = <<>>

\* C9: parsing is all-or-nothing: a term with 3 or more occurrences of
\* range_sep (the claim's example: "1--4" with range_sep '-') or a number
\* substring that is not a valid literal makes parse return an error and no
\* terms, neither those before nor those after the bad term; terms are
\* returned only when every term parses.
C9_ParseIsAllOrNothing ==
    /\ AllOrNothing
    /\ (original_repr.some /\ options.range_sep = "-"
            /\ Text = <<"1", "-", "-", "4">>)
        => ParseFailed

\* C10: default substitution is position-wise and only for Range terms: in a
\* term with 1 or 2 range separators an empty start becomes default_start,
\* an empty end default_end, an empty step 1, and an empty bound without its
\* default is a parse error; a term without range separator never takes a
\* default, so an empty term of a non-empty list is a parse error also with
\* defaults configured; "-" with range_sep '-' and defaults 0 and 5 drains
\* to 0, 1, 2, 3, 4, 5.
C10_DefaultsArePositionWise ==
    original_repr.some =>
        /\ \A k \in 1..Len(Pieces) :
              LET p == Pieces[k]
                  c == CountChar(p, options.range_sep)
                  parts == Split(p, options.range_sep)
              IN /\ c \in {1, 2} =>
                      /\ (IsEmptyNum(parts[1]) /\ ~options.default_start.some)
                            => ParseFailed
                      /\ (IsEmptyNum(parts[c + 1]) /\ ~options.default_end.some)
                            => ParseFailed
                      /\ ~ParseFailed =>
                            /\ base[k].kind = "Range"
                            /\ base[k].start =
                                  IF IsEmptyNum(parts[1])
                                  THEN options.default_start.v
                                  ELSE Literal(parts[1])
                            /\ base[k].end =
                                  IF IsEmptyNum(parts[c + 1])
                                  THEN options.default_end.v
                                  ELSE Literal(parts[c + 1])
                            /\ base[k].step =
                                  IF c = 2 /\ ~IsEmptyNum(parts[2])
                                  THEN Literal(parts[2])
                                  ELSE 1
                 /\ (c = 0 /\ IsEmptyNum(p)) => ParseFailed
        /\ (options.range_sep = "-" /\ options.default_start = SomeDefault(0)
                /\ options.default_end = SomeDefault(5) /\ Text = <<"-">>)
            => /\ ~ParseFailed
               /\ base = <<Range(0, 1, 5)>>
               /\ IsPrefix(emitted, <<0, 1, 2, 3, 4, 5>>)
               /\ (numbers = <<>> /\ last.op = "next"
                      => emitted = <<0, 1, 2, 3, 4, 5>>)

\* "-" parsed with range_sep '-' and defaults 0 and 5, drained.
C10_Witness ==
    /\ original_repr.some
    /\ Text = <<"-">>
    /\ options.range_sep = "-"
    /\ options.default_start = SomeDefault(0)
    /\ options.default_end = SomeDefault(5)
    /\ emitted = <<0, 1, 2, 3, 4, 5>>
    /\ numbers = <<>>


\* --------------------------------------------------------------- claim C11
\* C11: re-parsing replaces, never appends: when parse_str(text) succeeds on
\* a NumberRange that holds terms (parsed or pushed, partly consumed or not),
\* the term sequence afterwards is exactly the terms of text, one per list
\* element and none from before; a text whose sanitized form is empty
\* succeeds with zero terms and drains to nothing.
C11_ReparseReplaces ==
    [][(last'.op = "parse" /\ last'.ret = "Ok")
        => LET text == original_repr'.s
               pieces == Split(text, options.list_sep)
           IN /\ original_repr'.some
              /\ IF SanitizeNumber(text, options) = <<>>
                 THEN /\ numbers' = <<>>
                      /\ Drain(numbers', signed, overflow_checks, MaxPulls)
                             = [vals |-> <<>>, end |-> "None"]
                 ELSE /\ Len(numbers') = Len(pieces)
                      /\ \A k \in 1..Len(pieces) :
                            /\ ParseTerm(pieces[k], options, signed).ok
                            /\ numbers'[k] = ParseTerm(pieces[k], options, signed).v]_vars

\* A text of two terms was parsed into a NumberRange that still held terms.
C11_Witness ==
    /\ last.op = "parse"
    /\ last.ret = "Ok"
    /\ last.skipped > 0
    /\ Len(Pieces) = 2
    /\ Len(numbers) = 2

\* The empty text was parsed into a NumberRange that still held terms.
C11_WitnessEmpty ==
    /\ last.op = "parse"
    /\ last.ret = "Ok"
    /\ last.skipped > 0
    /\ Text = <<>>
    /\ numbers = <<>>


\* --------------------------------------------------------------- claim C12
\* C12: partial iteration resumes after a push: when k values v1..vk of the
\* full expansion v1..vn have been pulled and a term T is then pushed at the
\* back, draining yields exactly v(k+1)..vn followed by the expansion of T,
\* and then ends: nothing pulled is repeated, nothing left is lost.
C12_ResumeAfterPush ==
    [][(last'.op = "push" /\ IsPrefix(emitted, ExpansionAll(base)))
        => LET all == ExpansionAll(base)
               T == numbers'[Len(numbers')]
               rest == SubSeq(all, Len(emitted) + 1, Len(all)) \o Expansion(T)
               d == Drain(numbers', signed, overflow_checks, Len(rest))
           IN /\ d.vals = rest
              /\ d.end = "None"]_vars


\* --------------------------------------------------------------- claim C13
AllValid(nums) == \A k \in 1..Len(nums) : IsValid(nums[k])

\* C13: next() never stores an invalid Range: a pull from a valid front
\* Range(start, step, end) leaves Range(start + step, step, end) (the sum as
\* next() computes it in T) at the front only if that term is valid, and
\* removes the term otherwise; hence a pull from a sequence of valid terms
\* leaves a sequence of valid terms.
C13_NeverStoresInvalidRange ==
    [][(last'.op = "next" /\ last'.ret = "Some")
        => LET from == last'.skipped + 1
               n == numbers[from]
               adv == Range(WrapAdd(n.start, n.step, signed), n.step, n.end)
               rest == SubSeq(numbers, from + 1, Len(numbers))
           IN /\ (n.kind = "Range" /\ IsValid(adv)) => numbers' = <<adv>> \o rest
              /\ (n.kind = "Range" /\ IsInvalid(adv)) => numbers' = rest
              /\ (Len(numbers') = Len(rest) + 1) => IsValid(numbers'[1])
              /\ AllValid(numbers) => AllValid(numbers')]_vars

\* A Range was advanced twice and written back, in front of another valid
\* term.
C13_Witness ==
    /\ last.op = "next"
    /\ last.ret = "Some"
    /\ taken = 2
    /\ Len(numbers) = 2
    /\ AllValid(base)


\* --------------------------------------------------------------- claim C14
\* C14: a pull changes only the head of the term sequence: the terms behind
\* the term that produced the value are kept as they are, the term advanced
\* keeps its step and end, the number of terms never grows; and no pull and
\* no push changes the configuration or the text original() returns, which
\* is empty for a NumberRange that was never parsed.
C14_PullChangesOnlyTheHead ==
    [][/\ (last'.op = "next") =>
             /\ Len(numbers') <= Len(numbers)
             /\ (last'.ret = "Some") =>
                   LET from == last'.skipped + 1
                       n == numbers[from]
                       rest == SubSeq(numbers, from + 1, Len(numbers))
                   IN \/ numbers' = rest
                      \/ /\ Len(numbers') = Len(rest) + 1
                         /\ Tail(numbers') = rest
                         /\ n.kind = "Range"
                         /\ numbers'[1].kind = "Range"
                         /\ numbers'[1].step = n.step
                         /\ numbers'[1].end = n.end
       /\ (last'.op \in {"next", "push"}) =>
             /\ options' = options
             /\ original_repr' = original_repr
             /\ Original' = Original
             /\ (~original_repr.some => Original' = <<>>)]_vars

\* A parsed NumberRange of two terms after the first pull from its front
\* Range, the second term still behind it.
C14_Witness ==
    /\ last.op = "next"
    /\ last.ret = "Some"
    /\ taken = 1
    /\ Len(numbers) = 2
    /\ Original # <<>>

====
